---- MODULE Spec2Model ----
(***************************************************************************)
(* A model of sky/clouds/service_catalog/data_fetchers/fetch_denvr_cloud.py *)
(* : the script that authenticates against the Denvr Cloud API, fetches    *)
(* the VM availability of every cluster and writes the catalog CSV.        *)
(*                                                                         *)
(* Python values are tagged records, so that None, strings, numbers,       *)
(* booleans, dicts and lists can be told apart the way Python tells them   *)
(* apart.  A Python str is a sequence of one-character strings, so that    *)
(* the substring test `gpu in configuration` is computed, not assumed.     *)
(***************************************************************************)
EXTENDS Integers, Sequences, FiniteSets, TLC

(***************************************************************************)
(* Bounds of the model.                                                    *)
(***************************************************************************)
\* the longest `items` array the provider returns for one cluster
MaxItems == 2
\* the largest number of fragments a configuration name is built from
MaxParts == 2

(***************************************************************************)
(* Python values.                                                          *)
(***************************************************************************)
None == [t |-> "None"]
PyStr(s) == [t |-> "str", v |-> s]
PyInt(n) == [t |-> "int", v |-> n]
PyBool(b) == [t |-> "bool", v |-> b]
PyDict(d) == [t |-> "dict", v |-> d]
PyList(l) == [t |-> "list", v |-> l]

\* the dict with no key
EmptyMap == [k \in {} |-> None]

\* Python truthiness, as the operators `or` and `if x` use it
Truthy(x) ==
    CASE x.t = "None" -> FALSE
      [] x.t = "str" -> Len(x.v) > 0
      [] x.t = "int" -> x.v # 0
      [] x.t = "bool" -> x.v
      [] x.t = "dict" -> DOMAIN x.v # {}
      [] x.t = "list" -> Len(x.v) > 0

\* a or b
PyOr(a, b) == IF Truthy(a) THEN a ELSE b

\* d.get(key, default) on a dict d
DictGet(d, key, default) == IF key \in DOMAIN d.v THEN d.v[key] ELSE default

(***************************************************************************)
(* Text.                                                                   *)
(***************************************************************************)
\* s[i..i+Len(sub)-1] = sub
MatchesAt(sub, s, i) == \A j \in 1..Len(sub) : s[i + j - 1] = sub[j]

\* sub in s, for two Python strs
IsSubstring(sub, s) ==
    \E i \in 1..(Len(s) - Len(sub) + 1) : MatchesAt(sub, s, i)

Digit(d) ==
    CASE d = 0 -> "0" [] d = 1 -> "1" [] d = 2 -> "2" [] d = 3 -> "3"
      [] d = 4 -> "4" [] d = 5 -> "5" [] d = 6 -> "6" [] d = 7 -> "7"
      [] d = 8 -> "8" [] d = 9 -> "9"

RECURSIVE Digits(_)
\* str(n) for a natural number n
Digits(n) == IF n < 10 THEN <<Digit(n)>> ELSE Digits(n \div 10) \o <<Digit(n % 10)>>

\* the text csv.writer puts in a cell: None is the empty cell, a str is
\* itself, anything else is str(value)
CsvCell(x) ==
    CASE x.t = "None" -> <<>>
      [] x.t = "str" -> x.v
      [] x.t = "int" -> Digits(x.v)
      [] x.t = "bool" -> IF x.v THEN <<"T", "r", "u", "e">>
                                  ELSE <<"F", "a", "l", "s", "e">>

(***************************************************************************)
(* The tables of the script.                                               *)
(***************************************************************************)
A100 == <<"A", "1", "0", "0">>
A100_80GB == <<"A", "1", "0", "0", "_", "8", "0", "G", "B">>
V100 == <<"V", "1", "0", "0">>
T4 == <<"T", "4">>
P100 == <<"P", "1", "0", "0">>
K80 == <<"K", "8", "0">>
H100 == <<"H", "1", "0", "0">>
GENERAL == <<"G", "E", "N", "E", "R", "A", "L">>

\* the table with A100_80GB ahead of A100
GPU_TO_MEMORY_swapped ==
    << <<A100_80GB, PyInt(81920)>>, <<A100, PyInt(40960)>>,
       <<V100, PyInt(16384)>>, <<T4, PyInt(16384)>>, <<P100, PyInt(16384)>>,
       <<K80, PyInt(12288)>>, <<H100, PyInt(81920)>>, <<GENERAL, None>> >>

\* the dict literal, as the ordered list of its (key, value) items
GPU_TO_MEMORY ==
    << <<A100, PyInt(40960)>>, <<A100_80GB, PyInt(81920)>>,
       <<V100, PyInt(16384)>>, <<T4, PyInt(16384)>>, <<P100, PyInt(16384)>>,
       <<K80, PyInt(12288)>>, <<H100, PyInt(81920)>>, <<GENERAL, None>> >>

CLUSTERS == <<"Msc1", "Hou1">>

AUTH_ENDPOINT == "https://api.cloud.denvrdata.com/api/TokenAuth/Authenticate"

\* the template with its {cluster} filled in
GET_AVAILABILITY_ENDPOINT(cluster) ==
    <<"https://api.cloud.denvrdata.com/api/v1/servers/virtual/GetAvailability?cluster=",
      cluster, "&resourcePool=on-demand">>

(***************************************************************************)
(* GPU classification: the loop over GPU_TO_MEMORY.keys() and the lookup   *)
(* that follows it.                                                        *)
(***************************************************************************)
RECURSIVE ScanGpu(_, _)
\* for gpu in GPU_TO_MEMORY.keys(): if gpu in configuration: gpu_type = gpu; break
\* started at the i-th key; None when the loop ends without a match
ScanGpu(configuration, i) ==
    IF i > Len(GPU_TO_MEMORY) THEN None
    ELSE IF IsSubstring(GPU_TO_MEMORY[i][1], configuration)
         THEN PyStr(GPU_TO_MEMORY[i][1])
         ELSE ScanGpu(configuration, i + 1)

\* GPU_TO_MEMORY.get(gpu_type, 0)
GpuMemoryGet(gpu_type) ==
    IF \E i \in 1..Len(GPU_TO_MEMORY) : GPU_TO_MEMORY[i][1] = gpu_type.v
    THEN GPU_TO_MEMORY[CHOOSE i \in 1..Len(GPU_TO_MEMORY) :
                          GPU_TO_MEMORY[i][1] = gpu_type.v][2]
    ELSE PyInt(0)

\* gpu_memory = GPU_TO_MEMORY.get(gpu_type, 0) if gpu_type else 0
GpuMemory(gpu_type) == IF Truthy(gpu_type) THEN GpuMemoryGet(gpu_type) ELSE PyInt(0)

(***************************************************************************)
(* The environment of one run: the command line, the process environment,  *)
(* the file system and the provider's responses.                           *)
(***************************************************************************)
\* the values --username / --password can have: not given, given empty, given
CliValues == {None, PyStr(<<>>), PyStr(<<"c">>)}
\* the values os.getenv can return: unset, set empty, set
EnvValues == {None, PyStr(<<>>), PyStr(<<"e">>)}
\* os.path.dirname(args.output): '' for a bare file name
OutputDirs == {"", "denvr"}

HEADER ==
    << <<"C","o","n","f","i","g","u","r","a","t","i","o","n">>,
       <<"C","l","u","s","t","e","r">>,
       <<"R","e","s","o","u","r","c","e"," ","P","o","o","l">>,
       <<"T","y","p","e">>,
       <<"P","r","i","c","e">>,
       <<"A","v","a","i","l","a","b","l","e">>,
       <<"C","o","u","n","t">>,
       <<"M","a","x","C","o","u","n","t">>,
       <<"G","P","U","_","T","y","p","e">>,
       <<"G","P","U","_","M","e","m","o","r","y","(","M","i","B",")">> >>

\* no file at the output path
NoFile == [exists |-> FALSE, rows |-> <<>>]
\* a file holding the CSV rows `rows`
FileOf(rows) == [exists |-> TRUE, rows |-> rows]
\* a catalog left by an earlier run: the header and one row
OldCatalog ==
    FileOf(<< HEADER,
              << <<"o","l","d">>, <<"M","s","c","1">>, <<>>, <<>>, <<"1">>,
                 <<"1">>, <<"1">>, <<"1">>, <<>>, <<"0">> >> >>)
InitialFiles == {NoFile, OldCatalog}

HttpStatuses == {200, 401, 500}

\* the token pairs the provider hands out
TokenPairs ==
    { <<PyStr(<<"a","1">>), PyStr(<<"r","1">>)>>,
      <<PyStr(<<"a","2">>), PyStr(<<"r","2">>)>> }

\* the JSON bodies of the authentication endpoint
AuthOkBody(pair) ==
    PyDict([result |-> PyDict([accessToken |-> pair[1], refreshToken |-> pair[2]])])
AuthBodies ==
    {AuthOkBody(pair) : pair \in TokenPairs}
        \cup { PyDict(EmptyMap),
               PyDict([result |-> None]),
               PyDict([result |-> PyDict([accessToken |-> PyStr(<<"a","1">>)])]) }

\* the body that comes with an error status
ErrorBody == PyDict([error |-> PyStr(<<"e","r","r">>)])

AuthResponses ==
    {[status |-> 200, body |-> b] : b \in AuthBodies}
        \cup {[status |-> s, body |-> ErrorBody] : s \in HttpStatuses \ {200}}

OnDemand == PyStr(<<"o","n","-","d","e","m","a","n","d">>)

\* an offering with the eight fields under the names the data model gives
VmT4 ==
    PyDict([configuration |-> PyStr(<<"x">> \o T4), cluster |-> PyStr(<<"H","o","u","1">>),
            resourcePool |-> OnDemand, type |-> PyStr(<<"g","p","u">>),
            price |-> PyInt(25), available |-> PyBool(TRUE),
            count |-> PyInt(1), maxCount |-> PyInt(4)])
\* an offering with its pool under the key rpool, and no GPU in its name
VmCpu ==
    PyDict([configuration |-> PyStr(<<"c","p","u">>), cluster |-> PyStr(<<"M","s","c","1">>),
            rpool |-> OnDemand, type |-> PyStr(<<"v","m">>),
            price |-> PyInt(3), available |-> PyInt(0),
            count |-> PyInt(0), maxCount |-> PyInt(12)])
\* an offering without a configuration
VmNoConfiguration ==
    PyDict([cluster |-> PyStr(<<"M","s","c","1">>), price |-> PyInt(7)])

SampleVms == {VmT4, VmCpu, VmNoConfiguration}

RECURSIVE SeqsUpTo(_, _)
\* the sequences over S of length at most n
SeqsUpTo(S, n) ==
    IF n = 0 THEN {<<>>}
    ELSE LET shorter == SeqsUpTo(S, n - 1)
         IN  shorter \cup {Append(q, x) : q \in shorter, x \in S}

ItemLists == SeqsUpTo(SampleVms, MaxItems)

\* the JSON bodies of the availability endpoint
FetchBodies ==
    {PyDict([result |-> PyDict([items |-> PyList(l)])]) : l \in ItemLists}
        \cup { PyDict(EmptyMap),
               PyDict([result |-> PyDict(EmptyMap)]),
               PyDict([result |-> None]),
               PyDict([result |-> PyDict([items |-> None])]) }

FetchResponses ==
    {[status |-> 200, body |-> b] : b \in FetchBodies}
        \cup {[status |-> s, body |-> ErrorBody] : s \in HttpStatuses \ {200}}

(***************************************************************************)
(* The state of one run of the script.                                     *)
(***************************************************************************)
VARIABLES
    cli_username,   \* args.username
    cli_password,   \* args.password
    env_user,       \* os.getenv('DENVR_CLOUD_USER_EMAIL')
    env_password,   \* os.getenv('DENVR_CLOUD_PASSWORD')
    output_dir,     \* os.path.dirname(args.output)
    file0,          \* the file at args.output when the run starts
    file,           \* the file at args.output
    f_open,         \* the handle f of create_catalog is open
    pc,             \* the statement the run is at
    error,          \* the exception that ended the run, "none" if none has
    user,           \* the username get_credentials returned
    pwd,            \* the password get_credentials returned
    access_token,
    refresh_token,
    http,           \* the HTTP exchanges so far: request and response
    cluster_i,      \* the index in CLUSTERS of the for loop of create_catalog
    vms,            \* the list fetch_vms_for_cluster returned last
    vm_i,           \* the index in vms of the inner for loop
    configuration,  \* the locals of the loop body
    gpu_type,
    gpu_memory

vars ==
    <<cli_username, cli_password, env_user, env_password, output_dir, file0,
      file, f_open, pc, error, user, pwd, access_token, refresh_token, http,
      cluster_i, vms, vm_i, configuration, gpu_type, gpu_memory>>

inputs == <<cli_username, cli_password, env_user, env_password, output_dir, file0>>
credentials == <<user, pwd>>
tokens == <<access_token, refresh_token>>
loop == <<cluster_i, vms, vm_i>>
locals == <<configuration, gpu_type, gpu_memory>>

\* the state of a process that has run nothing yet
Fresh ==
    /\ f_open = FALSE
    /\ error = "none"
    /\ user = None
    /\ pwd = None
    /\ access_token = None
    /\ refresh_token = None
    /\ http = <<>>
    /\ cluster_i = 1
    /\ vms = PyList(<<>>)
    /\ vm_i = 1
    /\ gpu_type = None
    /\ gpu_memory = PyInt(0)

Init ==
    /\ cli_username \in CliValues
    /\ cli_password \in CliValues
    /\ env_user \in EnvValues
    /\ env_password \in EnvValues
    /\ output_dir \in OutputDirs
    /\ file0 \in InitialFiles
    /\ file = file0
    /\ pc = "makedirs"
    /\ configuration = None
    /\ Fresh

\* an exception nothing catches ends the run
Raise(e) ==
    /\ pc' = "failed"
    /\ error' = e

\* response.raise_for_status(): raises for a 4xx or 5xx status
\* (a variant that lets a 4xx status pass)
RaisesForStatus_5xx(status) == 500 <= status /\ status < 600
RaisesForStatus(status) == 400 <= status /\ status < 600

\* os.makedirs(os.path.dirname(args.output), exist_ok=True)
Makedirs ==
    /\ pc = "makedirs"
    /\ IF output_dir = ""
       THEN Raise("FileNotFoundError")
       ELSE pc' = "get_credentials" /\ UNCHANGED error
    /\ UNCHANGED <<inputs, file, f_open, credentials, tokens, http, loop, locals>>

\* username = cmdline_args.username or os.getenv('DENVR_CLOUD_USER_EMAIL')
\* (a variant with the environment ahead of the command line)
ResolveFlipped(cli, env) == PyOr(env, cli)
Resolve(cli, env) == PyOr(cli, env)

\* the assert of get_credentials passes
\* (a variant that forgets the password)
CredentialsFound_username(username, password) == username # None
CredentialsFound(username, password) == username # None /\ password # None

\* user, pwd = get_credentials(args)
get_credentials ==
    /\ pc = "get_credentials"
    /\ LET username == Resolve(cli_username, env_user)
           password == Resolve(cli_password, env_password)
       IN  IF CredentialsFound(username, password)
           THEN /\ user' = username
                /\ pwd' = password
                /\ pc' = "authenticate"
                /\ UNCHANGED error
           ELSE /\ Raise("AssertionError")
                /\ UNCHANGED credentials
    /\ UNCHANGED <<inputs, file, f_open, tokens, http, loop, locals>>

\* the request requests.post sends
AuthRequest(username, password) ==
    [method |-> "POST", endpoint |-> AUTH_ENDPOINT,
     json |-> [userNameOrEmailAddress |-> username, password |-> password]]

\* what evaluating auth_data['result']['accessToken'],
\* auth_data['result']['refreshToken'] raises, "none" if nothing
TokensError(auth_data) ==
    IF "result" \notin DOMAIN auth_data.v THEN "KeyError"
    ELSE IF auth_data.v["result"].t # "dict" THEN "TypeError"
    ELSE IF {"accessToken", "refreshToken"} \subseteq DOMAIN auth_data.v["result"].v
         THEN "none"
         ELSE "KeyError"

\* access_token, refresh_token = authenticate(user, pwd)
authenticate ==
    /\ pc = "authenticate"
    /\ \E response \in AuthResponses :
          /\ http' = Append(http, [request |-> AuthRequest(user, pwd),
                                   response |-> response])
          /\ IF RaisesForStatus(response.status)
             THEN Raise("HTTPError") /\ UNCHANGED tokens
             ELSE IF TokensError(response.body) # "none"
             THEN Raise(TokensError(response.body)) /\ UNCHANGED tokens
             ELSE /\ access_token' = response.body.v["result"].v["accessToken"]
                  /\ refresh_token' = response.body.v["result"].v["refreshToken"]
                  /\ pc' = "create_catalog"
                  /\ UNCHANGED error
    /\ UNCHANGED <<inputs, file, f_open, credentials, loop, locals>>

\* the file once open(output_path, mode='w') and writer.writerow(header) have
\* run on the file `old`
\* (a variant that opens with mode='a')
OpenedFile_append(old) == FileOf(old.rows \o <<HEADER>>)
OpenedFile(old) == FileOf(<<HEADER>>)

\* with open(output_path, mode='w', encoding='utf-8') as f: and the header row
OpenOutput ==
    /\ pc = "create_catalog"
    /\ \E opened \in BOOLEAN :
          IF opened
          THEN /\ file' = OpenedFile(file)
               /\ f_open' = TRUE
               /\ pc' = "fetch"
               /\ UNCHANGED error
          ELSE /\ Raise("OSError")
               /\ UNCHANGED <<file, f_open>>
    /\ UNCHANGED <<inputs, credentials, tokens, http, loop, locals>>

\* the request requests.get sends
\* (a variant with the two tokens in each other's header)
FetchRequest_swapped(cluster, access, refresh) ==
    [method |-> "GET", endpoint |-> GET_AVAILABILITY_ENDPOINT(cluster),
     Authorization |-> <<"Bearer", refresh>>, encryptedAccessToken |-> access]
FetchRequest(cluster, access, refresh) ==
    [method |-> "GET", endpoint |-> GET_AVAILABILITY_ENDPOINT(cluster),
     Authorization |-> <<"Bearer", access>>, encryptedAccessToken |-> refresh]

\* fetch_vms_for_cluster, from the response on: what it raises ("none" if
\* nothing) and what it returns
\* (a variant that subscripts, response.json()['result']['items'])
FetchOutcome_subscript(response) ==
    IF RaisesForStatus(response.status)
    THEN [raises |-> "HTTPError", value |-> None]
    ELSE IF "result" \notin DOMAIN response.body.v
    THEN [raises |-> "KeyError", value |-> None]
    ELSE IF response.body.v["result"].t # "dict"
    THEN [raises |-> "TypeError", value |-> None]
    ELSE IF "items" \notin DOMAIN response.body.v["result"].v
    THEN [raises |-> "KeyError", value |-> None]
    ELSE [raises |-> "none", value |-> response.body.v["result"].v["items"]]
FetchOutcome(response) ==
    IF RaisesForStatus(response.status)
    THEN [raises |-> "HTTPError", value |-> None]
    ELSE LET result == DictGet(response.body, "result", PyDict(EmptyMap))
         IN  IF result.t # "dict"
             THEN [raises |-> "AttributeError", value |-> None]
             ELSE [raises |-> "none",
                   value |-> DictGet(result, "items", PyList(<<>>))]

\* the with block is left by an exception: f is closed, the run ends
\* (a variant without the with statement: f stays open)
RaiseInWith_leak(e) ==
    /\ UNCHANGED f_open
    /\ Raise(e)
RaiseInWith(e) ==
    /\ f_open' = FALSE
    /\ Raise(e)

\* the inner loop has no item left: the next cluster, or the end of the with
\* block and of the script
NextCluster ==
    IF cluster_i < Len(CLUSTERS)
    THEN /\ cluster_i' = cluster_i + 1
         /\ pc' = "fetch"
         /\ UNCHANGED f_open
    ELSE /\ f_open' = FALSE
         /\ pc' = "done"
         /\ UNCHANGED cluster_i

\* vms = fetch_vms_for_cluster(cluster, access_token, refresh_token); for vm in vms:
FetchCluster ==
    /\ pc = "fetch"
    /\ \E response \in FetchResponses :
          LET outcome == FetchOutcome(response)
          IN  /\ http' = Append(http,
                    [request |-> FetchRequest(CLUSTERS[cluster_i], access_token,
                                              refresh_token),
                     response |-> response])
              /\ IF outcome.raises # "none"
                 THEN RaiseInWith(outcome.raises) /\ UNCHANGED loop
                 ELSE IF outcome.value.t # "list"
                 THEN /\ RaiseInWith("TypeError")
                      /\ vms' = outcome.value
                      /\ UNCHANGED <<cluster_i, vm_i>>
                 ELSE /\ vms' = outcome.value
                      /\ vm_i' = 1
                      /\ UNCHANGED error
                      /\ IF Len(outcome.value.v) = 0
                         THEN NextCluster
                         ELSE pc' = "row" /\ UNCHANGED <<cluster_i, f_open>>
    /\ UNCHANGED <<inputs, file, credentials, tokens, locals>>

\* the keys the loop body reads with vm.get, in the order of the row
ROW_KEYS ==
    <<"configuration", "cluster", "rpool", "type", "price", "available",
      "count", "maxCount">>

\* the list writer.writerow is given, as the cells it writes
RowOf(vm, gpu, memory) ==
    [k \in 1..Len(ROW_KEYS) |-> CsvCell(DictGet(vm, ROW_KEYS[k], None))]
        \o <<CsvCell(gpu), CsvCell(memory)>>

\* one pass of the body of `for vm in vms`
WriteRow ==
    /\ pc = "row"
    /\ LET vm == vms.v[vm_i]
           conf == DictGet(vm, "configuration", None)
       IN  /\ configuration' = conf
           /\ IF conf.t # "str"
              THEN \* `gpu in configuration` raises
                   /\ RaiseInWith("TypeError")
                   /\ gpu_type' = None
                   /\ UNCHANGED <<gpu_memory, file, loop>>
              ELSE /\ gpu_type' = ScanGpu(conf.v, 1)
                   /\ gpu_memory' = GpuMemory(gpu_type')
                   /\ file' = FileOf(Append(file.rows, RowOf(vm, gpu_type', gpu_memory')))
                   /\ UNCHANGED <<error, vms>>
                   /\ IF vm_i < Len(vms.v)
                      THEN /\ vm_i' = vm_i + 1
                           /\ UNCHANGED <<pc, cluster_i, f_open>>
                      ELSE /\ NextCluster
                           /\ UNCHANGED vm_i
    /\ UNCHANGED <<inputs, credentials, tokens, http>>

Next ==
    \/ Makedirs
    \/ get_credentials
    \/ authenticate
    \/ OpenOutput
    \/ FetchCluster
    \/ WriteRow

Spec == Init /\ [][Next]_vars

(***************************************************************************)
(* GPU classification on its own: the loop body's classification applied   *)
(* to every configuration name built from a few fragments.                 *)
(***************************************************************************)
Fragments ==
    { A100, <<"_", "8", "0", "G", "B">>, V100, T4, P100, K80, H100, GENERAL,
      <<"-">>, <<"n", "o", "d", "e">>, <<"c", "l", "u", "s", "t", "e", "r">>,
      <<"8", "0", "G", "B">> }

RECURSIVE Concat(_)
Concat(parts) == IF parts = <<>> THEN <<>> ELSE Head(parts) \o Concat(Tail(parts))

\* "H100-80GB-cluster", "A100_80GB-node", "generic-cpu-node"
H100_80GB_cluster ==
    H100 \o <<"-", "8", "0", "G", "B", "-", "c", "l", "u", "s", "t", "e", "r">>
A100_80GB_node == A100_80GB \o <<"-", "n", "o", "d", "e">>
generic_cpu_node ==
    <<"g", "e", "n", "e", "r", "i", "c", "-", "c", "p", "u", "-", "n", "o", "d", "e">>

Configurations ==
    {Concat(parts) : parts \in SeqsUpTo(Fragments, MaxParts)}
        \cup {H100_80GB_cluster, A100_80GB_node, generic_cpu_node}

InitGpu ==
    /\ cli_username = None
    /\ cli_password = None
    /\ env_user = None
    /\ env_password = None
    /\ output_dir = "denvr"
    /\ file0 = NoFile
    /\ file = file0
    /\ pc = "classify"
    /\ configuration \in {PyStr(c) : c \in Configurations}
    /\ Fresh

\* lines 93-99 of the loop body, for the configuration at hand
ClassifyGpu ==
    /\ pc = "classify"
    /\ gpu_type' = ScanGpu(configuration.v, 1)
    /\ gpu_memory' = GpuMemory(gpu_type')
    /\ pc' = "classified"
    /\ UNCHANGED <<inputs, file, f_open, error, credentials, tokens, http, loop,
                   configuration>>

NextGpu == ClassifyGpu

SpecGpu == InitGpu /\ [][NextGpu]_vars

(***************************************************************************)
(* What the properties below read off the state.                           *)
(***************************************************************************)
\* the run has ended
Terminal == pc \in {"done", "failed"}

\* a success status
StatusOk(status) == status \in 200..299

\* the k-th exchange is the authentication POST / an availability GET
IsPost(k) == http[k].request.method = "POST"
IsGet(k) == http[k].request.method = "GET"

\* the body holds result.accessToken and result.refreshToken
BodyHasTokens(body) ==
    /\ "result" \in DOMAIN body.v
    /\ body.v["result"].t = "dict"
    /\ "accessToken" \in DOMAIN body.v["result"].v
    /\ "refreshToken" \in DOMAIN body.v["result"].v

\* authentication has returned its tokens
Authenticated ==
    /\ Len(http) >= 1
    /\ IsPost(1)
    /\ StatusOk(http[1].response.status)
    /\ BodyHasTokens(http[1].response.body)

\* the body holds an array at result.items
BodyHasItems(body) ==
    /\ "result" \in DOMAIN body.v
    /\ body.v["result"].t = "dict"
    /\ "items" \in DOMAIN body.v["result"].v
    /\ body.v["result"].v["items"].t = "list"

\* the path result.items is absent: no result, or a result with no items
BodyPathAbsent(body) ==
    \/ "result" \notin DOMAIN body.v
    \/ /\ body.v["result"].t = "dict"
       /\ "items" \notin DOMAIN body.v["result"].v

\* the offerings the provider returned in the k-th exchange
Offered(k) ==
    IF BodyHasItems(http[k].response.body)
    THEN http[k].response.body.v["result"].v["items"].v
    ELSE <<>>

\* the fetch of the k-th exchange succeeded
FetchSucceeded(k) ==
    /\ IsGet(k)
    /\ StatusOk(http[k].response.status)
    /\ \/ BodyHasItems(http[k].response.body)
       \/ BodyPathAbsent(http[k].response.body)

RECURSIVE OfferedUpTo(_)
\* the offerings returned in the exchanges 2..k, in the order returned
OfferedUpTo(k) == IF k < 2 THEN <<>> ELSE OfferedUpTo(k - 1) \o Offered(k)

\* the rows of the file after its first
DataRows == IF Len(file.rows) >= 1 THEN Tail(file.rows) ELSE <<>>

\* the first eight cells of `row` are the values `vm` has under `keys`, an
\* absent value being the empty cell
CellsAre(row, vm, keys) ==
    \A k \in 1..Len(keys) : row[k] = CsvCell(DictGet(vm, keys[k], None))

\* the file is the header and one row for each of `offerings`, in order
FileHolds(offerings) ==
    /\ file.exists
    /\ Len(file.rows) = 1 + Len(offerings)
    /\ file.rows[1] = HEADER
    /\ \A i \in 1..Len(offerings) : CellsAre(file.rows[i + 1], offerings[i], ROW_KEYS)

(***************************************************************************)
(* C1.  In every run in which authentication and all cluster fetches       *)
(* succeed, the file the run leaves is the header row followed by exactly  *)
(* one data row for each offering the provider returned, cluster by        *)
(* cluster in the order Msc1, Hou1 and within a cluster in the order       *)
(* returned.                                                               *)
(***************************************************************************)
AllFetchesSucceeded ==
    /\ Authenticated
    /\ Len(http) = 1 + Len(CLUSTERS)
    /\ \A k \in 2..Len(http) : FetchSucceeded(k)

\* C1: a run whose authentication and fetches all succeeded leaves the header
\* and one row per offering returned, in the order returned
C1_OneRowPerOffering ==
    (Terminal /\ AllFetchesSucceeded) => FileHolds(OfferedUpTo(Len(http)))

(***************************************************************************)
(* C2.  A non-success status from the authentication call or from the      *)
(* fetch of cluster k aborts the run: no fetch for a later cluster is      *)
(* issued and no further row is written.  As amended: after a failed       *)
(* fetch the file is the header and the rows of the clusters before k;     *)
(* after a failed authentication this run has written nothing, and the     *)
(* file is what it was before the run.                                     *)
(***************************************************************************)
AuthFailed == Len(http) >= 1 /\ IsPost(1) /\ ~StatusOk(http[1].response.status)

FetchFailedAt(k) == k >= 2 /\ Len(http) >= k /\ ~StatusOk(http[k].response.status)

\* the part of the claim about a failed fetch
C2_FetchAborts ==
    \A k \in 2..(1 + Len(CLUSTERS)) :
        FetchFailedAt(k) =>
            /\ pc = "failed"
            /\ error = "HTTPError"
            /\ Len(http) = k
            /\ FileHolds(OfferedUpTo(k - 1))

\* C2, as amended: a failed authentication or fetch ends the run with no later
\* fetch and no further row; a failed authentication leaves the file as it was
C2_FailureAborts ==
    /\ AuthFailed =>
          /\ pc = "failed"
          /\ error = "HTTPError"
          /\ Len(http) = 1
          /\ file = file0
    /\ C2_FetchAborts

\* C2, as first stated: after a failed authentication the file holds no data
\* row at all
C2_AsStated ==
    /\ AuthFailed =>
          /\ pc = "failed"
          /\ Len(http) = 1
          /\ DataRows = <<>>
    /\ C2_FetchAborts

\* the fetch of the second cluster failed after the first cluster's rows
\* were written
C2_Witness ==
    /\ FetchFailedAt(3)
    /\ Len(Offered(2)) = 2
    /\ Len(file.rows) = 3

(***************************************************************************)
(* C3.  Classification yields the first key, in the order A100, A100_80GB, *)
(* V100, T4, P100, K80, H100, GENERAL, that is a substring of the          *)
(* configuration, with that key's memory, and (None, 0) when no key is a   *)
(* substring.  "H100-80GB-cluster" gives (H100, 81920), a T4 configuration *)
(* gives (T4, 16384), "A100_80GB-node" gives the one label the order fixes.*)
(***************************************************************************)
KeyOrder == <<A100, A100_80GB, V100, T4, P100, K80, H100, GENERAL>>

\* the keys that are substrings of the string c, by their place in the order
MatchingKeys(c) == {i \in 1..Len(KeyOrder) : IsSubstring(KeyOrder[i], c)}

\* the memory the table gives for `key`
MemoryOf(key) ==
    GPU_TO_MEMORY[CHOOSE i \in 1..Len(GPU_TO_MEMORY) : GPU_TO_MEMORY[i][1] = key][2]

\* C3: the classification is the first key of the order that is a substring
\* of the configuration, with its memory, or (None, 0)
C3_FirstKeyInOrder ==
    pc = "classified" =>
        LET matching == MatchingKeys(configuration.v)
        IN  /\ matching = {} => gpu_type = None /\ gpu_memory = PyInt(0)
            /\ matching # {} =>
                  LET first == CHOOSE i \in matching : \A j \in matching : i <= j
                  IN  /\ gpu_type = PyStr(KeyOrder[first])
                      /\ gpu_memory = MemoryOf(KeyOrder[first])
            /\ configuration.v = H100_80GB_cluster =>
                  gpu_type = PyStr(H100) /\ gpu_memory = PyInt(81920)
            /\ configuration.v = T4 =>
                  gpu_type = PyStr(T4) /\ gpu_memory = PyInt(16384)
            /\ configuration.v = A100_80GB_node =>
                  gpu_type = PyStr(A100) /\ gpu_memory = PyInt(40960)

\* "A100_80GB-node", of which two keys are substrings, has been classified
C3_Witness ==
    /\ pc = "classified"
    /\ configuration.v = A100_80GB_node
    /\ MatchingKeys(configuration.v) = {1, 2}
    /\ gpu_type = PyStr(A100)

(***************************************************************************)
(* C4.  When the username or the password is absent after the command line *)
(* and the environment have been checked, get_credentials fails and the    *)
(* run stops before any network call: no POST and no GET is ever issued.   *)
(***************************************************************************)
\* neither source has a value: no argument (or an empty one), no variable
Absent(cli, env) == (cli = None \/ cli = PyStr(<<>>)) /\ env = None

CredentialsAbsent ==
    Absent(cli_username, env_user) \/ Absent(cli_password, env_password)

\* C4: with a credential absent from both sources the run fails in
\* get_credentials and issues no HTTP call
C4_NoNetworkWithoutCredentials ==
    CredentialsAbsent =>
        /\ http = <<>>
        /\ pc \in {"makedirs", "get_credentials", "failed"}
        /\ (pc = "failed" /\ output_dir # "") => error = "AssertionError"

\* a run with a username and no password has ended in get_credentials
C4_Witness ==
    /\ ~Absent(cli_username, env_user)
    /\ Absent(cli_password, env_password)
    /\ pc = "failed"
    /\ error = "AssertionError"
    /\ http = <<>>

(***************************************************************************)
(* C5.  Independently for the username and the password, resolution        *)
(* returns the explicit argument whenever one is given, and the            *)
(* environment value only when none is given.  As amended: whenever a      *)
(* non-empty one is given; an empty argument counts as none.               *)
(***************************************************************************)
\* get_credentials has returned
CredentialsReturned ==
    pc \notin {"makedirs", "get_credentials"}
        /\ error \notin {"FileNotFoundError", "AssertionError"}

\* C5, as first stated: the explicit argument is returned whenever one is
\* given, the environment value only when none is
C5_AsStated ==
    CredentialsReturned =>
        /\ cli_username # None => user = cli_username
        /\ cli_username = None => user = env_user
        /\ cli_password # None => pwd = cli_password
        /\ cli_password = None => pwd = env_password

\* C5, as amended: a non-empty explicit argument is returned whenever one is
\* given, the environment value when the argument is missing or empty
C5_NonEmptyExplicitWins ==
    CredentialsReturned =>
        /\ cli_username \notin {None, PyStr(<<>>)} => user = cli_username
        /\ cli_username \in {None, PyStr(<<>>)} => user = env_user
        /\ cli_password \notin {None, PyStr(<<>>)} => pwd = cli_password
        /\ cli_password \in {None, PyStr(<<>>)} => pwd = env_password

\* both sources hold a username, only the environment holds a password
C5_Witness ==
    /\ CredentialsReturned
    /\ cli_username = PyStr(<<"c">>)
    /\ env_user = PyStr(<<"e">>)
    /\ user = cli_username
    /\ cli_password = None
    /\ pwd = env_password

(***************************************************************************)
(* C6.  Round trip: for every offering the provider returned, each of the  *)
(* eight fields configuration, cluster, resourcePool, type, price,         *)
(* available, count, maxCount that is present in the response appears      *)
(* unmodified in its column Configuration, Cluster, Resource Pool, Type,   *)
(* Price, Available, Count, MaxCount.  Stated here for the runs that end   *)
(* normally, in which every offering has its row.                          *)
(***************************************************************************)
\* the fields of an offering as the data model names them, in column order
OfferingFields ==
    <<"configuration", "cluster", "resourcePool", "type", "price", "available",
      "count", "maxCount">>

\* each field present in `vm` is in its column of `row`
FieldsAppear(row, vm) ==
    \A k \in 1..Len(OfferingFields) :
        OfferingFields[k] \in DOMAIN vm.v => row[k] = CsvCell(vm.v[OfferingFields[k]])

\* C6: in a run that ended normally every field present in an offering is in
\* its column of the offering's row
C6_FieldsRoundTrip ==
    pc = "done" =>
        LET offerings == OfferedUpTo(Len(http))
        IN  /\ Len(file.rows) = 1 + Len(offerings)
            /\ \A i \in 1..Len(offerings) : FieldsAppear(file.rows[i + 1], offerings[i])

(***************************************************************************)
(* C7.  The output file handle is open only inside create_catalog, is not  *)
(* open before authentication has returned, and is closed in every state   *)
(* the run can end in: success, a failed fetch, an error while an offering *)
(* is processed.                                                           *)
(***************************************************************************)
\* C7: the handle is closed in every terminal state and open only inside
\* create_catalog, after authentication
C7_HandleReleased ==
    /\ Terminal => ~f_open
    /\ f_open => pc \in {"fetch", "row"} /\ Authenticated /\ access_token # None

\* the run ended on an offering it could not process, after it had written
\* a row through the handle
C7_Witness ==
    /\ pc = "failed"
    /\ error = "TypeError"
    /\ Len(file.rows) >= 2
    /\ ~f_open

(***************************************************************************)
(* C8.  For a success status the fetch returns the array at result.items   *)
(* of the body; when that path is absent (no result, or a result with no   *)
(* items) it returns the empty sequence and raises nothing: the run writes *)
(* no row for that cluster and goes on to the next cluster.                *)
(***************************************************************************)
\* this step received the response to a GET
GetAnswered ==
    /\ Len(http') = Len(http) + 1
    /\ http'[Len(http')].request.method = "GET"

\* C8: a step that receives a success response to a GET returns result.items,
\* or the empty list without an error when that path is absent, and then goes
\* on to the next cluster with no row written
C8_AbsentItemsIsEmpty ==
    [][ (GetAnswered /\ StatusOk(http'[Len(http')].response.status)) =>
          LET body == http'[Len(http')].response.body
          IN  /\ BodyHasItems(body) =>
                    /\ vms' = body.v["result"].v["items"]
                    /\ error' = "none"
              /\ BodyPathAbsent(body) =>
                    /\ vms' = PyList(<<>>)
                    /\ error' = "none"
                    /\ file' = file
                    /\ IF cluster_i < Len(CLUSTERS)
                       THEN pc' = "fetch" /\ cluster_i' = cluster_i + 1 /\ f_open'
                       ELSE pc' = "done" ]_vars

\* the first cluster's body had no result.items, and the run went on to
\* write the second cluster's row and to end normally
C8_Witness ==
    /\ pc = "done"
    /\ Len(http) = 3
    /\ BodyPathAbsent(http[2].response.body)
    /\ Len(Offered(3)) = 1
    /\ Len(file.rows) = 2

(***************************************************************************)
(* C9.  The HTTP calls of a run are a strict sequence with no retry: one   *)
(* authentication POST, before every GET; at most one GET per cluster, in  *)
(* the order of the cluster list, each with the tokens that authentication *)
(* returned; one GET per cluster in a run that succeeds.  As amended: at   *)
(* most one POST, and exactly one in every run that got past the           *)
(* resolution of the credentials.                                          *)
(***************************************************************************)
\* what holds of the calls of every run
C9_Calls ==
    /\ Len(http) <= 1 + Len(CLUSTERS)
    /\ \A k \in 1..Len(http) : IsPost(k) <=> k = 1
    /\ \A k \in 2..Len(http) :
          /\ http[k].request.endpoint = GET_AVAILABILITY_ENDPOINT(CLUSTERS[k - 1])
          /\ Authenticated
          /\ http[k].request.Authorization =
                <<"Bearer", http[1].response.body.v["result"].v["accessToken"]>>
          /\ http[k].request.encryptedAccessToken =
                http[1].response.body.v["result"].v["refreshToken"]
    /\ pc = "done" => Len(http) = 1 + Len(CLUSTERS)

\* C9, as amended: the calls are one POST then GETs in cluster order with its
\* tokens, and a run that got past get_credentials has issued the POST
C9_StrictSequence ==
    /\ C9_Calls
    /\ (Terminal /\ CredentialsReturned) => Len(http) >= 1

\* C9, as first stated: every run issues its one POST (a run that os.makedirs
\* ended before anything else is left aside)
C9_AsStated ==
    /\ C9_Calls
    /\ (Terminal /\ error # "FileNotFoundError") => Len(http) >= 1

\* a run that succeeded with the provider's second pair of tokens
C9_Witness ==
    /\ pc = "done"
    /\ Len(http) = 1 + Len(CLUSTERS)
    /\ access_token = PyStr(<<"a", "2">>)
    /\ http[3].request.encryptedAccessToken = PyStr(<<"r", "2">>)

(***************************************************************************)
(* C10.  The file is what it was before the run unless authentication has  *)
(* succeeded; once it has, the file is truncated and the header written    *)
(* before the first fetch is issued, so that a failure of the first fetch  *)
(* leaves the header alone and the earlier catalog is lost.                *)
(***************************************************************************)
\* C10: the file is unchanged until authentication has succeeded, and is the
\* header alone when the first fetch is issued and when that fetch fails
C10_FileFrame ==
    /\ ~Authenticated => file = file0
    /\ (pc = "fetch" /\ cluster_i = 1) => file = FileOf(<<HEADER>>)
    /\ Len(http) >= 2 =>
          /\ file.exists
          /\ file.rows[1] = HEADER
          /\ Len(file.rows) <= 1 + Len(OfferedUpTo(Len(http)))
    /\ (Len(http) = 2 /\ ~FetchSucceeded(2)) =>
          pc = "failed" /\ file = FileOf(<<HEADER>>)

\* the first fetch failed in a run that started with an earlier catalog
C10_Witness ==
    /\ file0 = OldCatalog
    /\ Len(http) = 2
    /\ ~StatusOk(http[2].response.status)
    /\ pc = "failed"
    /\ file = FileOf(<<HEADER>>)

====
